---- MODULE Spec2Model ----
(***************************************************************************)
(* Model of the SignerVer02 tools: update_signer.py (locate, decode,       *)
(* patch, multi-encoding token replacement, model detection, CLI entry)    *)
(* and extract_params.py (locate, decode, extraction).                     *)
(*                                                                         *)
(* A byte string is a sequence of integers 0..255.  A python str is a      *)
(* sequence of code points.  Offsets are 0-based as in the source; the     *)
(* sequences themselves are 1-based.  python's None is a value of its own, *)
(* distinct from b'' and '': None for byte strings and strings, NonePos    *)
(* for an offset.                                                          *)
(***************************************************************************)
EXTENDS Integers, Sequences, FiniteSets

VARIABLES file, exists, len0, last

vars == <<file, exists, len0, last>>

----------------------------------------------------------------------------
(* Bounds of the model                                                     *)

\* the images start with 0..MaxPad zero bytes
MaxPad == 1

----------------------------------------------------------------------------
(* python primitives                                                       *)

\* None where a byte string or a str is expected: one element that is no
\* byte and no code point, so that it differs from every string, b'' and ''
\* included
None == <<0 - 1>>
NonePos == 0 - 1

Min(S) == CHOOSE x \in S : \A y \in S : x <= y

\* F applied to the value of e: e is evaluated once, where a LET definition
\* is evaluated again at each of its uses
Eval(e, F(_)) == CHOOSE r \in {F(x) : x \in {e}} : TRUE

\* bool(s): None, b'' and '' are false
Truthy(s) == s # None /\ Len(s) > 0

\* b[a:b] of python, for 0 <= a
Slice(s, a, b) == SubSeq(s, a + 1, IF b < Len(s) THEN b ELSE Len(s))

\* bytes.find(pat, start): the least offset >= start where pat occurs, or -1
BytesFind(data, pat, start) ==
  LET n == Len(pat)
      S == {i \in start..(Len(data) - n) : \A k \in 1..n : data[i + k] = pat[k]}
  IN IF S = {} THEN NonePos ELSE Min(S)

\* buf[a:b] = v of python on a bytearray (the result has another length when
\* Len(v) differs from the length of the slice)
SliceAssign(buf, a, b, v) ==
  LET lo == IF a < Len(buf) THEN a ELSE Len(buf)
      hi == IF b < Len(buf) THEN b ELSE Len(buf)
      h2 == IF hi < lo THEN lo ELSE hi
  IN SubSeq(buf, 1, lo) \o v \o SubSeq(buf, h2 + 1, Len(buf))

\* data.split(b'\x00')[0]: the bytes before the first NUL
RECURSIVE SplitNulHead(_)
SplitNulHead(s) ==
  IF s = <<>> THEN <<>>
  ELSE IF Head(s) = 0 THEN <<>>
  ELSE <<Head(s)>> \o SplitNulHead(Tail(s))

\* bytes.decode('ascii', errors='ignore'): bytes above 127 are dropped
DecodeAsciiIgnore(s) == SelectSeq(s, LAMBDA b : b < 128)

\* str.encode('ascii') raises UnicodeEncodeError on a code point above 127
AsciiEncodable(s) == \A i \in 1..Len(s) : s[i] < 128

EncodeAscii(s) == s

Utf8Char(c) ==
  IF c < 128 THEN <<c>>
  ELSE IF c < 2048 THEN <<192 + (c \div 64), 128 + (c % 64)>>
  ELSE <<224 + (c \div 4096), 128 + ((c \div 64) % 64), 128 + (c % 64)>>

RECURSIVE EncodeUtf8(_)
EncodeUtf8(s) ==
  IF s = <<>> THEN <<>> ELSE Utf8Char(Head(s)) \o EncodeUtf8(Tail(s))

RECURSIVE EncodeUtf16le(_)
EncodeUtf16le(s) ==
  IF s = <<>> THEN <<>>
  ELSE <<Head(s) % 256, Head(s) \div 256>> \o EncodeUtf16le(Tail(s))

\* python's order on str: by code point, a proper prefix first
RECURSIVE StrLess(_, _)
StrLess(a, b) ==
  IF b = <<>> THEN FALSE
  ELSE IF a = <<>> THEN TRUE
  ELSE IF Head(a) # Head(b) THEN Head(a) < Head(b)
  ELSE StrLess(Tail(a), Tail(b))

\* sorted(list(set(...)))
RECURSIVE SortedList(_)
SortedList(S) ==
  IF S = {} THEN <<>>
  ELSE LET m == CHOOSE x \in S : \A y \in S : x = y \/ StrLess(x, y)
       IN <<m>> \o SortedList(S \ {m})

Range(s) == {s[i] : i \in 1..Len(s)}

Zeros(n) == [i \in 1..n |-> 0]

\* f, NUL-padded (or cut) to n bytes
Pad(f, n) == [i \in 1..n |-> IF i <= Len(f) THEN f[i] ELSE 0]

----------------------------------------------------------------------------
(* Locating the record: find_signer_section                                *)

signer_pattern == <<83, 105, 103, 110, 101, 114, 86, 101, 114, 48, 50>>

section_length == 128

\* What find_signer_section returns, with the branch that returned it:
\* "io" (open failed, caught), "empty", "not_found", "too_short" all return
\* (None, None); "ok" returns (start_pos, signer_data).
FindFail(why) == [pos |-> NonePos, data |-> None, err |-> why]

\* find_signer_section with the bound test off by one (end_pos >= len(data))
find_signer_section_strict(ex, data) ==
  IF ~ex THEN FindFail("io")
  ELSE IF ~Truthy(data) THEN FindFail("empty")
  ELSE Eval(BytesFind(data, signer_pattern, 0), LAMBDA start_pos :
         LET end_pos == start_pos + section_length
         IN IF start_pos = NonePos THEN FindFail("not_found")
            ELSE IF end_pos >= Len(data) THEN FindFail("too_short")
            ELSE [pos |-> start_pos, data |-> Slice(data, start_pos, end_pos),
                  err |-> "ok"])

\* find_signer_section returning the 128 bytes after the marker's first byte
find_signer_section_shifted(ex, data) ==
  IF ~ex THEN FindFail("io")
  ELSE IF ~Truthy(data) THEN FindFail("empty")
  ELSE Eval(BytesFind(data, signer_pattern, 0), LAMBDA start_pos :
         LET end_pos == start_pos + section_length
         IN IF start_pos = NonePos THEN FindFail("not_found")
            ELSE IF end_pos > Len(data) THEN FindFail("too_short")
            ELSE [pos |-> start_pos,
                  data |-> Slice(data, start_pos + 1, end_pos + 1),
                  err |-> "ok"])

find_signer_section(ex, data) ==
  IF ~ex THEN FindFail("io")
  ELSE IF ~Truthy(data) THEN FindFail("empty")
  ELSE Eval(BytesFind(data, signer_pattern, 0), LAMBDA start_pos :
         LET end_pos == start_pos + section_length
         IN IF start_pos = NonePos THEN FindFail("not_found")
            ELSE IF end_pos > Len(data) THEN FindFail("too_short")
            ELSE [pos |-> start_pos, data |-> Slice(data, start_pos, end_pos),
                  err |-> "ok"])

\* extract_params.py holds its own copy of the function
extract_find_signer_section(ex, data) ==
  IF ~ex THEN FindFail("io")
  ELSE IF ~Truthy(data) THEN FindFail("empty")
  ELSE Eval(BytesFind(data, signer_pattern, 0), LAMBDA start_pos :
         LET end_pos == start_pos + section_length
         IN IF start_pos = NonePos THEN FindFail("not_found")
            ELSE IF end_pos > Len(data) THEN FindFail("too_short")
            ELSE [pos |-> start_pos, data |-> Slice(data, start_pos, end_pos),
                  err |-> "ok"])

----------------------------------------------------------------------------
(* Decoding the record: parse_signer_section                               *)

EmptyMarker == <<60, 101, 109, 112, 116, 121, 62>>      \* "<empty>"

\* Field without the cut at the first NUL
FieldWhole(signer_data, a, b) == DecodeAsciiIgnore(Slice(signer_data, a, b))

Field(signer_data, a, b) ==
  DecodeAsciiIgnore(SplitNulHead(Slice(signer_data, a, b)))

\* valid = FALSE is the None parse_signer_section returns; raised = TRUE is
\* an exception that leaves the function
NoMeta ==
  [valid |-> FALSE, raised |-> FALSE, signer_version |-> <<>>, number |-> <<>>,
   device_model |-> <<>>, date |-> <<>>, software_model |-> <<>>,
   software_version |-> <<>>]

\* len(None) in the size message: TypeError, outside the try block
MetaTypeError == [NoMeta EXCEPT !.raised = TRUE]

Metadata(signer_data) ==
  [valid |-> TRUE, raised |-> FALSE,
   signer_version |-> Field(signer_data, 0, 15),
   number |-> Field(signer_data, 16, 31),
   device_model |-> Field(signer_data, 32, 63),
   date |-> Field(signer_data, 64, 78),
   software_model |-> Field(signer_data, 80, 111),
   software_version |->
     IF Truthy(Field(signer_data, 112, 127)) THEN Field(signer_data, 112, 127)
     ELSE EmptyMarker]

\* update_signer.py: any length other than 128 is refused; the message of
\* the refusal takes len(signer_data), which raises for None
parse_signer_section(signer_data) ==
  IF ~Truthy(signer_data) \/ Len(signer_data) # 128
  THEN IF signer_data = None THEN MetaTypeError ELSE NoMeta
  ELSE Metadata(signer_data)

\* extract_params.py: only lengths below 128 are refused
extract_parse_signer_section(signer_data) ==
  IF ~Truthy(signer_data) \/ Len(signer_data) < 128
  THEN IF signer_data = None THEN MetaTypeError ELSE NoMeta
  ELSE Metadata(signer_data)

\* extract_params.py extract_parameters with no output files requested
extract_parameters(ex, data) ==
  Eval(extract_find_signer_section(ex, data), LAMBDA f :
    IF ~Truthy(f.data)
    THEN [ret |-> FALSE, pos |-> NonePos, meta |-> NoMeta]
    ELSE Eval(extract_parse_signer_section(f.data), LAMBDA metadata :
           IF ~metadata.valid
           THEN [ret |-> FALSE, pos |-> f.pos, meta |-> NoMeta]
           ELSE [ret |-> TRUE, pos |-> f.pos, meta |-> metadata]))

----------------------------------------------------------------------------
(* Token replacement: replace_all_occurrences                              *)

\* The while loop of one encoding: it searches data, the buffer the function
\* was given, and writes into new_data, its copy.
RECURSIVE ScanLoop(_, _, _, _, _, _)
ScanLoop(data, new_data, old_bytes, new_bytes, start, count) ==
  Eval(BytesFind(data, old_bytes, start), LAMBDA pos :
    IF pos = NonePos THEN [buf |-> new_data, count |-> count]
    ELSE Eval(SliceAssign(new_data, pos, pos + Len(new_bytes), new_bytes),
              LAMBDA written :
                ScanLoop(data, written, old_bytes, new_bytes,
                         pos + Len(new_bytes), count + 1)))

\* The list of (old_bytes, new_bytes) pairs, in the order of the source
Replacements(old_model, new_model) ==
  << <<EncodeAscii(old_model), EncodeAscii(new_model)>>,
     <<EncodeUtf8(old_model), EncodeUtf8(new_model)>>,
     <<EncodeUtf16le(old_model), EncodeUtf16le(new_model)>>,
     <<EncodeAscii(old_model) \o <<0>>, EncodeAscii(new_model) \o <<0>> >>,
     <<EncodeUtf8(old_model) \o <<0>>, EncodeUtf8(new_model) \o <<0>> >> >>

\* ForEncodings without the test that skips an encoding whose old and new
\* bytes differ in length
RECURSIVE ForEncodingsAnyLength(_, _, _, _, _)
ForEncodingsAnyLength(data, new_data, reps, i, total) ==
  IF i > Len(reps) THEN [buf |-> new_data, count |-> total]
  ELSE Eval(ScanLoop(data, new_data, reps[i][1], reps[i][2], 0, 0),
            LAMBDA r :
              ForEncodingsAnyLength(data, r.buf, reps, i + 1,
                                    total + r.count))

\* The for loop over the encodings, from the i-th on
RECURSIVE ForEncodings(_, _, _, _, _)
ForEncodings(data, new_data, reps, i, total) ==
  IF i > Len(reps) THEN [buf |-> new_data, count |-> total]
  ELSE LET old_bytes == reps[i][1]
           new_bytes == reps[i][2]
       IN IF Len(old_bytes) # Len(new_bytes)
          THEN ForEncodings(data, new_data, reps, i + 1, total)
          ELSE Eval(ScanLoop(data, new_data, old_bytes, new_bytes, 0, 0),
                    LAMBDA r :
                      ForEncodings(data, r.buf, reps, i + 1, total + r.count))

\* raised = TRUE is the UnicodeEncodeError of encode('ascii')
replace_all_occurrences(data, old_model, new_model) ==
  IF ~Truthy(old_model) \/ ~Truthy(new_model) \/ old_model = new_model
  THEN [raised |-> FALSE, buf |-> data, count |-> 0]
  ELSE IF ~AsciiEncodable(old_model) \/ ~AsciiEncodable(new_model)
  THEN [raised |-> TRUE, buf |-> data, count |-> 0]
  ELSE Eval(Replacements(old_model, new_model), LAMBDA reps :
         Eval(ForEncodings(data, data, reps, 1, 0), LAMBDA r :
           [raised |-> FALSE, buf |-> r.buf, count |-> r.count]))

----------------------------------------------------------------------------
(* Model detection: detect_device_models_in_file                           *)

IsUpper(b) == 65 <= b /\ b <= 90
IsDigit(b) == 48 <= b /\ b <= 57
IsUpperOrDigit(b) == IsUpper(b) \/ IsDigit(b)

\* The number of bytes [A-Z0-9]{6,12} takes at offset i (greedy; 0..12)
RECURSIVE TailRun(_, _, _)
TailRun(data, i, n) ==
  IF n < 12 /\ i + n < Len(data) /\ IsUpperOrDigit(data[i + n + 1])
  THEN TailRun(data, i, n + 1)
  ELSE n

\* The length of the match of [A-Z][0-9]{3}[A-Z]{2}[A-Z0-9]{6,12} that
\* starts at offset i, or 0 when there is none
MatchLen(data, i) ==
  IF /\ i + 12 <= Len(data)
     /\ IsUpper(data[i + 1])
     /\ IsDigit(data[i + 2]) /\ IsDigit(data[i + 3]) /\ IsDigit(data[i + 4])
     /\ IsUpper(data[i + 5]) /\ IsUpper(data[i + 6])
     /\ TailRun(data, i + 6, 0) >= 6
  THEN 6 + TailRun(data, i + 6, 0)
  ELSE 0

\* re.findall(pattern, data): the leftmost non-overlapping matches; the scan
\* resumes at the end of each match
RECURSIVE FindAll(_, _, _)
FindAll(data, i, acc) ==
  Eval({j \in i..(Len(data) - 1) : MatchLen(data, j) > 0}, LAMBDA S :
    IF S = {} THEN acc
    ELSE Eval(Min(S), LAMBDA j :
           Eval(MatchLen(data, j), LAMBDA n :
             Eval(Append(acc, Slice(data, j, j + n)), LAMBDA found :
               FindAll(data, j + n, found)))))

\* sorted(list(set(m.decode(...) for m in matches if 10 <= len(m) <= 20)))
Models(data) ==
  Eval(FindAll(data, 0, <<>>), LAMBDA matches :
    SortedList({DecodeAsciiIgnore(matches[k]) :
                  k \in {j \in 1..Len(matches) :
                           10 <= Len(matches[j]) /\ Len(matches[j]) <= 20}}))

\* [m for m in models if m != x]
Without(models, x) == SelectSeq(models, LAMBDA m : m # x)

\* The device_model of the located record, or None
SignerModel(ex, data) ==
  Eval(find_signer_section(ex, data), LAMBDA f :
    IF ~Truthy(f.data) THEN None
    ELSE Eval(parse_signer_section(f.data), LAMBDA metadata :
           IF metadata.valid /\ Truthy(metadata.device_model)
           THEN metadata.device_model
           ELSE None))

\* detect_device_models_in_file trying the record's model before the
\* preferred one
detect_record_first(ex, data, preferred_model) ==
  IF ~ex THEN <<>>
  ELSE Eval(Models(data), LAMBDA models :
         Eval(SignerModel(ex, data), LAMBDA signer_model :
           IF Truthy(signer_model) /\ signer_model \in Range(models)
           THEN <<signer_model>> \o Without(models, signer_model)
           ELSE IF Truthy(preferred_model) /\ preferred_model \in Range(models)
           THEN <<preferred_model>> \o Without(models, preferred_model)
           ELSE IF models # <<>> THEN models
           ELSE <<>>))

\* open() of a missing file raises inside the try, and [] is returned
detect_device_models_in_file(ex, data, preferred_model) ==
  IF ~ex THEN <<>>
  ELSE Eval(Models(data), LAMBDA models :
         Eval(SignerModel(ex, data), LAMBDA signer_model :
           IF Truthy(preferred_model) /\ preferred_model \in Range(models)
           THEN <<preferred_model>> \o Without(models, preferred_model)
           ELSE IF Truthy(signer_model) /\ signer_model \in Range(models)
           THEN <<signer_model>> \o Without(models, signer_model)
           ELSE IF models # <<>> THEN models
           ELSE <<>>))

----------------------------------------------------------------------------
(* Updating a file: update_single_file and main                            *)

\* The outcome of a call: what it returned, whether an exception was caught
\* on the way, and the content of the file afterwards.
Outcome(ret, caught, wrote, content) ==
  [ret |-> ret, caught |-> caught, wrote |-> wrote, file |-> content]

\* The model replacement step and the write-back, on the buffer new_data
\* the record step left, with the modifications made so far
ModelStep(old_data, new_data, patched, new_device_model, old_device_model, experimental_model_replace) ==
  IF /\ experimental_model_replace
     /\ Truthy(old_device_model) /\ Truthy(new_device_model)
     /\ old_device_model # new_device_model
  THEN Eval(replace_all_occurrences(new_data, old_device_model,
                                    new_device_model), LAMBDA r :
         IF r.raised THEN Outcome(FALSE, TRUE, FALSE, old_data)
         ELSE IF patched \/ r.count > 0
         THEN Outcome(TRUE, FALSE, TRUE, r.buf)
         ELSE Outcome(FALSE, FALSE, FALSE, old_data))
  ELSE IF patched THEN Outcome(TRUE, FALSE, TRUE, new_data)
  ELSE Outcome(FALSE, FALSE, FALSE, old_data)

\* update_single_file writing the record one byte after the marker's offset
update_single_file_late(ex, old_data, new_signer_data, new_device_model, old_device_model, experimental_model_replace) ==
  IF ~ex THEN Outcome(FALSE, FALSE, FALSE, old_data)
  ELSE Eval(find_signer_section(ex, old_data), LAMBDA f :
         IF Truthy(f.data) /\ Truthy(new_signer_data)
         THEN IF Len(new_signer_data) # 128
              THEN Outcome(FALSE, FALSE, FALSE, old_data)
              ELSE Eval(SliceAssign(old_data, f.pos + 1, f.pos + 129,
                                    new_signer_data), LAMBDA new_data :
                     ModelStep(old_data, new_data, TRUE, new_device_model,
                               old_device_model, experimental_model_replace))
         ELSE ModelStep(old_data, old_data, FALSE, new_device_model,
                        old_device_model, experimental_model_replace))

update_single_file(ex, old_data, new_signer_data, new_device_model, old_device_model, experimental_model_replace) ==
  IF ~ex THEN Outcome(FALSE, FALSE, FALSE, old_data)
  ELSE Eval(find_signer_section(ex, old_data), LAMBDA f :
         IF Truthy(f.data) /\ Truthy(new_signer_data)
         THEN IF Len(new_signer_data) # 128
              THEN Outcome(FALSE, FALSE, FALSE, old_data)
              ELSE Eval(SliceAssign(old_data, f.pos, f.pos + 128,
                                    new_signer_data), LAMBDA new_data :
                     ModelStep(old_data, new_data, TRUE, new_device_model,
                               old_device_model, experimental_model_replace))
         ELSE ModelStep(old_data, old_data, FALSE, new_device_model,
                        old_device_model, experimental_model_replace))

\* main: a gives the command line, a.signer the content of the file that
\* --signer-section names (a.has_signer: the option is given, a.readable:
\* the file can be read).  code is the exit status.
main(ex, data, a) ==
  IF ~a.has_signer /\ ~Truthy(a.new_model)
  THEN [code |-> 1, out |-> Outcome(FALSE, FALSE, FALSE, data)]
  ELSE IF a.has_signer /\ ~a.readable
  THEN [code |-> 1, out |-> Outcome(FALSE, TRUE, FALSE, data)]
  ELSE IF a.has_signer /\ Len(a.signer) # 128
  THEN [code |-> 1, out |-> Outcome(FALSE, FALSE, FALSE, data)]
  ELSE Eval(IF a.auto_detect /\ ~Truthy(a.old_model)
            THEN Eval(detect_device_models_in_file(ex, data, a.preferred_model),
                      LAMBDA models : IF models # <<>> THEN models[1] ELSE None)
            ELSE a.old_model,
            LAMBDA old_model :
              Eval(update_single_file(ex, data,
                                      IF a.has_signer THEN a.signer ELSE None,
                                      a.new_model, old_model, a.experimental),
                   LAMBDA out : [code |-> IF out.ret THEN 0 ELSE 1,
                                 out |-> out]))

----------------------------------------------------------------------------
(* Inputs: images, replacement records, tokens                             *)

\* A 128-byte record with the six fields at their offsets and the byte r
\* in the reserved positions 15, 31, 63, 78, 79, 111, 127
MkRecord(f1, f2, f3, f4, f5, f6, r) ==
  Pad(f1, 15) \o <<r>> \o Pad(f2, 15) \o <<r>> \o Pad(f3, 31) \o <<r>> \o
  Pad(f4, 14) \o <<r, r>> \o Pad(f5, 31) \o <<r>> \o Pad(f6, 15) \o <<r>>

ModelA == <<70, 55, 49, 49, 66, 88, 88, 83, 56, 72, 88, 70, 50>>  \* F711BXXS8HXF2
ModelB == <<70, 55, 49, 49, 66, 88, 88, 83, 70, 74, 89, 71, 66>>  \* F711BXXSFJYGB
ModelC == <<65, 49, 50, 51, 66, 67, 52, 53, 54, 55, 56, 57>>      \* A123BC456789
ModelD == <<90, 57, 57, 57, 90, 90, 65, 66, 67, 68, 69, 70, 49, 50>>  \* Z999ZZABCDEF12
TokABA == <<65, 66, 65>>                                          \* ABA
TokXYZ == <<88, 89, 90>>                                          \* XYZ
TokAA == <<65, 65>>                                               \* AA
TokBB == <<66, 66>>                                               \* BB
TokAccent == <<70, 233>>                                          \* F + e-acute
Digits == <<50, 48, 50, 52>>                                      \* 2024

RecA == MkRecord(signer_pattern, Digits, ModelA, Digits \o Digits,
                 <<83, 77, 45>> \o ModelA, <<86, 49>>, 0)
\* software_version blank, reserved bytes set
RecB == MkRecord(signer_pattern, Digits, ModelB, Digits, ModelB, <<>>, 255)
\* no NUL inside the fields, a byte above 127 in number, and a device_model
\* longer than the pattern can match
RecC == MkRecord(signer_pattern \o <<46, 46, 46, 46>>,
                 <<49, 200>> \o ModelA,
                 ModelA \o ModelB \o <<49, 50, 51, 52, 53>>,
                 Digits \o Digits \o Digits \o <<49, 50>>,
                 <<200, 201>>, <<0, 86, 49>>, 0)
\* 128 bytes that do not start with the marker
RecNoMarker == MkRecord(<<83, 105, 103, 110>>, Digits, ModelB, Digits,
                        <<>>, <<86>>, 0)

\* a record in which the pattern matches nowhere; its device_model is XYZ
RecPlain == MkRecord(signer_pattern, Digits, TokXYZ, Digits, <<>>,
                     <<86, 49>>, 0)

\* The last three bodies are for the model detection.  Four candidates, out
\* of order in the image, around a record whose device_model is the third
\* of them in sorted order (and is matched twice, in device_model and in
\* software_model); three candidates, out of order, without a record; a
\* located record in an image without a candidate.
Bodies ==
  { <<>>,
    RecA,
    ModelA \o <<0>> \o RecB \o ModelB,
    RecC \o EncodeUtf16le(ModelA) \o <<1>> \o ModelA \o <<0>>,
    Slice(RecA, 0, 127),
    <<65, 66>> \o EncodeUtf16le(TokABA) \o <<65, 65, 65, 0>>,
    RecA \o RecB,
    ModelB \o <<32>> \o ModelA,
    ModelD \o <<32>> \o ModelC \o <<32>> \o RecB \o <<32>> \o ModelA,
    ModelD \o <<32>> \o ModelC \o <<32>> \o ModelA,
    RecPlain }

Images == {Zeros(k) \o b : k \in 0..MaxPad, b \in Bodies}

\* (old token, new token)
TokenPairs ==
  { <<ModelA, ModelB>>, <<ModelB, ModelA>>, <<ModelA, ModelA>>,
    <<None, ModelB>>, <<ModelA, None>>, <<ModelA, TokXYZ>>,
    <<TokABA, ModelA>>,
    <<TokABA, TokXYZ>>, <<TokAA, TokBB>>, <<TokAccent, TokAA>>,
    <<TokAA, TokAccent>> }

\* the calls of update_single_file:
\* (new_signer_data, old_device_model, new_device_model,
\*  experimental_model_replace)
UpdateCalls ==
  { <<RecB, None, None, FALSE>>,
    <<RecC, None, None, FALSE>>,
    <<RecNoMarker, None, None, FALSE>>,
    <<RecB, ModelA, ModelB, TRUE>>,
    <<Slice(RecB, 0, 127), ModelA, ModelB, TRUE>>,
    <<RecB \o <<0>>, None, None, FALSE>>,
    <<None, ModelA, ModelB, TRUE>>,
    <<None, ModelA, ModelB, FALSE>>,
    <<None, TokABA, TokXYZ, TRUE>>,
    <<None, TokAccent, TokAA, TRUE>>,
    <<None, ModelA, ModelA, TRUE>>,
    <<None, TokABA, ModelA, TRUE>>,
    <<None, None, ModelB, TRUE>> }

Preferred == {None, ModelA, ModelB, TokXYZ}

Arg(has_signer, readable, signer, new_model, old_model, preferred_model, auto_detect, experimental) ==
  [has_signer |-> has_signer, readable |-> readable, signer |-> signer,
   new_model |-> new_model, old_model |-> old_model,
   preferred_model |-> preferred_model, auto_detect |-> auto_detect,
   experimental |-> experimental]

\* the command lines of main
Args ==
  { Arg(FALSE, FALSE, None, None, None, None, FALSE, FALSE),
    Arg(TRUE, TRUE, RecB, None, None, None, FALSE, FALSE),
    Arg(TRUE, FALSE, None, ModelB, ModelA, None, FALSE, TRUE),
    Arg(TRUE, TRUE, Slice(RecB, 0, 127), ModelB, ModelA, None, FALSE, TRUE),
    Arg(TRUE, TRUE, <<>>, ModelB, ModelA, None, FALSE, TRUE),
    Arg(FALSE, FALSE, None, ModelB, ModelA, None, FALSE, TRUE),
    Arg(FALSE, FALSE, None, ModelB, None, None, TRUE, TRUE),
    Arg(FALSE, FALSE, None, ModelA, None, ModelB, TRUE, TRUE),
    Arg(FALSE, FALSE, None, ModelB, None, None, FALSE, TRUE) }

\* what parse_signer_section is handed: the signer_data find_signer_section
\* returned (None when no record is located), and the first 0, 127, 128 and
\* 129 bytes of the image
Slices(data) ==
  {find_signer_section(TRUE, data).data} \cup
  {Slice(data, 0, n) : n \in {0, 127, 128, 129}}

----------------------------------------------------------------------------
(* The state machine                                                       *)

\* last: the operation that ran last, its inputs and what it returned
Blank ==
  [op |-> "none", before |-> <<>>, nsd |-> <<>>, old |-> <<>>, new |-> <<>>,
   exp |-> FALSE, pref |-> <<>>, slice |-> <<>>, args |-> <<>>,
   ret |-> FALSE, caught |-> FALSE, wrote |-> FALSE, code |-> 0,
   raised |-> FALSE, buf |-> <<>>, count |-> 0,
   found |-> FindFail("none"), xfound |-> FindFail("none"),
   meta |-> NoMeta, xmeta |-> NoMeta, models |-> <<>>]

Init ==
  /\ exists \in BOOLEAN
  /\ file \in (IF exists THEN Images ELSE {<<>>})
  /\ len0 = Len(file)
  /\ last = Blank

UpdateSingleFile ==
  /\ \E c \in UpdateCalls :
       \E out \in {update_single_file(exists, file, c[1], c[3], c[2], c[4])} :
          /\ file' = out.file
          /\ last' = [Blank EXCEPT !.op = "update", !.before = file,
                        !.nsd = c[1], !.old = c[2], !.new = c[3],
                        !.exp = c[4], !.ret = out.ret, !.caught = out.caught,
                        !.wrote = out.wrote]
  /\ UNCHANGED <<exists, len0>>

Main ==
  /\ \E a \in Args :
       \E r \in {main(exists, file, a)} :
          /\ file' = r.out.file
          /\ last' = [Blank EXCEPT !.op = "main", !.before = file,
                        !.args = <<a>>, !.ret = r.out.ret,
                        !.caught = r.out.caught, !.wrote = r.out.wrote,
                        !.code = r.code]
  /\ UNCHANGED <<exists, len0>>

ReplaceAll ==
  /\ exists
  /\ \E tp \in TokenPairs :
       \E r \in {replace_all_occurrences(file, tp[1], tp[2])} :
          last' = [Blank EXCEPT !.op = "replace", !.before = file,
                     !.old = tp[1], !.new = tp[2], !.raised = r.raised,
                     !.buf = r.buf, !.count = r.count]
  /\ UNCHANGED <<file, exists, len0>>

FindSigner ==
  /\ last' = [Blank EXCEPT !.op = "find", !.before = file,
                !.found = find_signer_section(exists, file),
                !.xfound = extract_find_signer_section(exists, file)]
  /\ UNCHANGED <<file, exists, len0>>

ParseSigner ==
  /\ exists
  /\ \E sl \in Slices(file) :
       last' = [Blank EXCEPT !.op = "parse", !.before = file, !.slice = sl,
                  !.meta = parse_signer_section(sl),
                  !.xmeta = extract_parse_signer_section(sl)]
  /\ UNCHANGED <<file, exists, len0>>

Extract ==
  /\ \E r \in {extract_parameters(exists, file)} :
       last' = [Blank EXCEPT !.op = "extract", !.before = file,
                   !.ret = r.ret, !.xmeta = r.meta,
                   !.xfound = extract_find_signer_section(exists, file)]
  /\ UNCHANGED <<file, exists, len0>>

Detect ==
  /\ \E pref \in Preferred :
       last' = [Blank EXCEPT !.op = "detect", !.before = file, !.pref = pref,
                  !.models = detect_device_models_in_file(exists, file, pref)]
  /\ UNCHANGED <<file, exists, len0>>

\* The mutation path: calls of update_single_file, directly and through main
Next ==
  \/ UpdateSingleFile
  \/ Main

Spec == Init /\ [][Next]_vars

\* The functions of the two tools applied to the images
FnNext ==
  \/ ReplaceAll
  \/ FindSigner
  \/ ParseSigner
  \/ Extract
  \/ Detect

FnSpec == Init /\ [][FnNext]_vars

----------------------------------------------------------------------------
(* Properties                                                              *)

\* the offsets at which pat occurs in data
Occurrences(data, pat) ==
  {i \in 0..(Len(data) - Len(pat)) :
     \A k \in 1..Len(pat) : data[i + k] = pat[k]}

\* the last call asked for the model replacement step
ModelReplaceAsked ==
  last.exp /\ Truthy(last.old) /\ Truthy(last.new) /\ last.old # last.new

\* the image before the last call holds a marker with 128 bytes from it on
Locatable(data) ==
  /\ Occurrences(data, signer_pattern) # {}
  /\ Min(Occurrences(data, signer_pattern)) + 128 <= Len(data)

\* C1: the mutation path never changes the size of the image: after any
\* sequence of update_single_file calls the file is as long as it was at
\* the start, and replace_all_occurrences returns a buffer as long as the
\* one it was given, for every pair of tokens.
SizePreserved ==
  /\ Len(file) = len0
  /\ \A tp \in TokenPairs :
       \A r \in {replace_all_occurrences(file, tp[1], tp[2])} :
         ~r.raised => Len(r.buf) = Len(file)

\* a call that wrote both a record and a model replacement
SizePreservedWitness ==
  /\ last.op = "update" /\ last.wrote /\ ModelReplaceAsked
  /\ Len(last.nsd) = 128 /\ Locatable(last.before)
  /\ file # last.before
  /\ replace_all_occurrences(file, ModelB, ModelA).count > 0

\* a call that only patches the record: a 128-byte new_signer_data, no
\* model replacement
PatchOnly ==
  /\ last.op = "update" /\ exists
  /\ Len(last.nsd) = 128 /\ ~ModelReplaceAsked

\* the bytes [p, p+128) are the replacement record, all others are as before
Patched(p) ==
  /\ Len(file) = Len(last.before)
  /\ p + 128 <= Len(file)
  /\ \A i \in 1..Len(file) :
       file[i] = IF p < i /\ i <= p + 128 THEN last.nsd[i - p]
                 ELSE last.before[i]

\* C2 as stated: patching a buffer whose first marker is at offset p
\* leaves the replacement record in [p, p+128) and every other byte as it was.
PatchAtAnyMarker ==
  (PatchOnly /\ Occurrences(last.before, signer_pattern) # {})
    => Patched(Min(Occurrences(last.before, signer_pattern)))

\* C2 amended: the same, for a buffer that holds at least 128 bytes from
\* its first marker on.
PatchAtLocatedRecord ==
  (PatchOnly /\ Locatable(last.before))
    => /\ last.ret
       /\ Patched(Min(Occurrences(last.before, signer_pattern)))

\* a record patched in the middle of an image, changing it
PatchWitness ==
  /\ PatchOnly /\ Locatable(last.before)
  /\ Min(Occurrences(last.before, signer_pattern)) > 0
  /\ Min(Occurrences(last.before, signer_pattern)) + 128 < Len(file)
  /\ file # last.before

\* C3: a replacement record of a length other than 128 makes
\* update_single_file report failure and leave the file unchanged, whatever
\* else the call asked for.
WrongSizeFails ==
  (last.op = "update" /\ exists /\ Truthy(last.nsd) /\ Len(last.nsd) # 128)
    => (~last.ret /\ ~last.wrote /\ file = last.before)

\* 128 bytes that start with the marker
WellFormed(R) ==
  /\ Len(R) = 128
  /\ \A k \in 1..Len(signer_pattern) : R[k] = signer_pattern[k]

\* C8: after a well-formed record R was written over the located record at
\* offset p, locating and decoding the record of the patched file gives the
\* six fields of R.
RoundTrip ==
  (PatchOnly /\ Locatable(last.before) /\ WellFormed(last.nsd))
    => \A f \in {find_signer_section(exists, file)} :
         /\ f.err = "ok"
         /\ f.pos = Min(Occurrences(last.before, signer_pattern))
         /\ parse_signer_section(f.data).valid
         /\ parse_signer_section(f.data) = parse_signer_section(last.nsd)
         /\ extract_parameters(exists, file).meta
              = extract_parse_signer_section(last.nsd)

\* the record of an image replaced by one with other field values
RoundTripWitness ==
  /\ PatchOnly /\ Locatable(last.before) /\ WellFormed(last.nsd)
  /\ parse_signer_section(find_signer_section(exists, last.before).data)
       # parse_signer_section(last.nsd)
  /\ parse_signer_section(find_signer_section(exists, file).data).device_model
       = ModelB

\* the last operation was replace_all_occurrences on two distinct, non-empty
\* ASCII tokens of equal length
ReplacedTokens ==
  /\ last.op = "replace"
  /\ Truthy(last.old) /\ Truthy(last.new) /\ last.old # last.new
  /\ AsciiEncodable(last.old) /\ AsciiEncodable(last.new)
  /\ Len(last.old) = Len(last.new)

\* pat's occurrences in the input are all new_bytes in the output
Overwritten(old_bytes, new_bytes) ==
  \A i \in Occurrences(last.before, old_bytes) :
    \A k \in 1..Len(new_bytes) : last.buf[i + k] = new_bytes[k]

\* the occurrences a left-to-right scan replaces: each starts at or after
\* the end of the one before
RECURSIVE ScanCount(_, _, _)
ScanCount(data, pat, start) ==
  Eval(BytesFind(data, pat, start), LAMBDA pos :
    IF pos = NonePos THEN 0 ELSE 1 + ScanCount(data, pat, pos + Len(pat)))

\* C4: every ASCII, UTF-8 and UTF-16LE occurrence of old in the input is
\* overwritten by the same encoding of new, and the count returned is the
\* number of occurrences replaced (those of the one-byte-per-character
\* form, which is both the ASCII and the UTF-8 form of an ASCII token, and
\* those of the UTF-16LE form).
ReplaceAllComplete ==
  ReplacedTokens =>
    /\ ~last.raised
    /\ Overwritten(EncodeAscii(last.old), EncodeAscii(last.new))
    /\ Overwritten(EncodeUtf8(last.old), EncodeUtf8(last.new))
    /\ Overwritten(EncodeUtf16le(last.old), EncodeUtf16le(last.new))
    /\ last.count = ScanCount(last.before, EncodeAscii(last.old), 0)
                    + ScanCount(last.before, EncodeUtf16le(last.old), 0)

\* The five passes one after another, each scanning and rewriting the
\* buffer the pass before it left
RECURSIVE PassesInSequence(_, _, _, _)
PassesInSequence(current, reps, i, total) ==
  IF i > Len(reps) THEN [buf |-> current, count |-> total]
  ELSE IF Len(reps[i][1]) # Len(reps[i][2])
  THEN PassesInSequence(current, reps, i + 1, total)
  ELSE Eval(ScanLoop(current, current, reps[i][1], reps[i][2], 0, 0),
            LAMBDA r : PassesInSequence(r.buf, reps, i + 1, total + r.count))

\* C10: the buffer and the count returned are those of the five passes run
\* in the order ASCII, UTF-8, UTF-16LE, ASCII+NUL, UTF-8+NUL, each on the
\* output of the pass before.
PassesSeeCurrentBuffer ==
  ReplacedTokens =>
    \A r \in {PassesInSequence(last.before,
                               Replacements(last.old, last.new), 1, 0)} :
      last.buf = r.buf /\ last.count = r.count

\* what C5 asks of one result f of find_signer_section on data: the first
\* marker's offset and the 128 bytes there exactly when they exist; (None,
\* None) by the not-found return (or the empty-file return, for the buffer
\* of no bytes) without a marker; (None, None) by the too-short return
\* when fewer than 128 bytes remain from the first marker.
Located(f, data) ==
  \A M \in {Occurrences(data, signer_pattern)} :
    IF M = {}
    THEN /\ f.pos = NonePos /\ f.data = None
         /\ f.err = (IF data = <<>> THEN "empty" ELSE "not_found")
    ELSE IF Len(data) - Min(M) < 128
    THEN f.pos = NonePos /\ f.data = None /\ f.err = "too_short"
    ELSE /\ f.err = "ok" /\ f.pos = Min(M)
         /\ Len(f.data) = 128
         /\ \A k \in 1..128 : f.data[k] = data[Min(M) + k]

\* C5: find_signer_section (of either tool) returns the first marker's
\* offset and the 128 bytes from it exactly when the marker is present with
\* at least 128 bytes up to the end; it fails as not found without a marker
\* and as too short with fewer than 128 bytes from the marker on.
LocateOutcome ==
  (last.op = "find" /\ exists)
    => Located(last.found, last.before) /\ Located(last.xfound, last.before)

\* the first of two markers located, away from the start of the image
LocateWitness ==
  /\ last.op = "find" /\ exists
  /\ last.found.err = "ok" /\ last.found.pos > 0
  /\ Cardinality(Occurrences(last.before, signer_pattern)) = 2
  /\ last.xfound = last.found

\* C6: parse_signer_section of both tools refuses every slice that is not
\* exactly 128 bytes long, and accepts every slice of 128 bytes.
DecodeRefusesWrongSize ==
  (last.op = "parse" /\ last.slice # None)
    => /\ Len(last.slice) # 128 => (~last.meta.valid /\ ~last.xmeta.valid)
       /\ Len(last.slice) = 128 => (last.meta.valid /\ last.xmeta.valid)

\* the bytes of s before its first NUL
UpToNul(s) ==
  SubSeq(s, 1, Min({i \in 1..Len(s) : s[i] = 0} \cup {Len(s) + 1}) - 1)

\* the six field ranges (start, end) in the order of the record
FieldRanges ==
  [signer_version |-> <<0, 15>>, number |-> <<16, 31>>,
   device_model |-> <<32, 63>>, date |-> <<64, 78>>,
   software_model |-> <<80, 111>>, software_version |-> <<112, 127>>]

\* the image of the last operation holds exactly one marker, with at least
\* 128 bytes from it on
OneRecord ==
  /\ exists
  /\ Cardinality(Occurrences(last.before, signer_pattern)) = 1
  /\ Locatable(last.before)

\* the record of the image of the last operation
TheRecord ==
  SubSeq(last.before,
         Min(Occurrences(last.before, signer_pattern)) + 1,
         Min(Occurrences(last.before, signer_pattern)) + 128)

\* C7 as stated: locate then decode succeeds on an image with one record and
\* every field is the bytes of its range up to the first NUL.
FieldsArePrefixes ==
  /\ (last.op = "extract" /\ OneRecord)
       => /\ last.ret /\ last.xmeta.valid
          /\ \A n \in DOMAIN FieldRanges :
               last.xmeta[n] =
                 UpToNul(SubSeq(TheRecord, FieldRanges[n][1] + 1,
                                FieldRanges[n][2]))
  /\ (last.op = "parse" /\ OneRecord /\ last.slice = TheRecord)
       => /\ last.meta.valid
          /\ \A n \in DOMAIN FieldRanges :
               last.meta[n] =
                 UpToNul(SubSeq(TheRecord, FieldRanges[n][1] + 1,
                                FieldRanges[n][2]))

\* what decoding gives for the field n of the record: the bytes of its range
\* up to the first NUL without those above 127, and "<empty>" for a blank
\* software_version
Decoded(n) ==
  \A raw \in {SelectSeq(UpToNul(SubSeq(TheRecord, FieldRanges[n][1] + 1,
                                       FieldRanges[n][2])),
                        LAMBDA b : b <= 127)} :
    /\ (last.op = "extract") => last.xmeta[n] =
         (IF n = "software_version" /\ raw = <<>> THEN EmptyMarker ELSE raw)
    /\ (last.op = "parse") => last.meta[n] =
         (IF n = "software_version" /\ raw = <<>> THEN EmptyMarker ELSE raw)

\* C7 amended: locate then decode succeeds on an image with one record and
\* every field is the bytes of its range up to the first NUL with the bytes
\* above 127 left out, a blank software_version being given as "<empty>".
FieldsDecoded ==
  /\ (last.op = "extract" /\ OneRecord)
       => /\ last.ret /\ last.xmeta.valid
          /\ \A n \in DOMAIN FieldRanges : Decoded(n)
  /\ (last.op = "parse" /\ OneRecord /\ last.slice = TheRecord)
       => /\ last.meta.valid
          /\ \A n \in DOMAIN FieldRanges : Decoded(n)

\* a record decoded whose fields fill their ranges, hold a byte above 127
\* and a blank software_version
FieldsWitness ==
  /\ last.op = "extract" /\ OneRecord /\ last.ret
  /\ Len(last.xmeta.date) = 14
  /\ last.xmeta.software_model = <<>>
  /\ last.xmeta.software_version = EmptyMarker
  /\ Len(last.xmeta.number) = 14

\* the pattern-matched candidates of the image of the last operation
Candidates ==
  IF exists THEN Range(FindAll(last.before, 0, <<>>)) ELSE {}

\* the device_model of the record of the image, when one is located
RecordModel ==
  IF exists /\ Locatable(last.before) THEN Field(TheRecord, 32, 63) ELSE <<>>

\* the head the three-step priority gives
ExpectedHead ==
  IF last.pref \in Candidates THEN last.pref
  ELSE IF RecordModel \in Candidates THEN RecordModel
  ELSE CHOOSE m \in Candidates : \A o \in Candidates : ~StrLess(o, m)

\* C9: detect_device_models_in_file returns (never raising) a list without
\* duplicates of exactly the candidates; its head is preferred if that is a
\* candidate, else the record's device_model if that is one, else the first
\* candidate in lexicographic order; the others follow in sorted order; it
\* is empty when there is no candidate.
DetectOrder ==
  last.op = "detect"
    => /\ Range(last.models) = Candidates
       /\ Len(last.models) = Cardinality(Candidates)
       /\ Candidates # {} => last.models[1] = ExpectedHead
       /\ \A i \in 2..Len(last.models) : \A j \in (i + 1)..Len(last.models) :
            StrLess(last.models[i], last.models[j])

\* four candidates, the preferred model not one of them: the record's
\* device_model heads the list ahead of two smaller candidates, and the
\* three others follow in sorted order although the image holds them in
\* another order
DetectWitness ==
  /\ last.op = "detect" /\ Len(last.models) = 4
  /\ Truthy(last.pref) /\ last.pref \notin Candidates
  /\ last.models[1] = RecordModel
  /\ StrLess(last.models[2], last.models[1])
  /\ StrLess(last.models[3], last.models[1])
  /\ StrLess(last.models[1], last.models[4])
  /\ BytesFind(last.before, last.models[4], 0)
       < BytesFind(last.before, last.models[2], 0)

\* detection on an image with a located record and no candidate, the
\* preferred model being the record's device_model: the list is empty
DetectNothingWithRecord ==
  /\ last.op = "detect" /\ exists /\ Locatable(last.before)
  /\ Candidates = {}
  /\ Truthy(last.pref) /\ last.pref = RecordModel
  /\ last.models = <<>>

\* the preferred model heads the list from the middle of four candidates
DetectPreferredOfFour ==
  /\ last.op = "detect" /\ Cardinality(Candidates) = 4
  /\ last.pref \in Candidates /\ last.models[1] = last.pref
  /\ last.pref # RecordModel /\ RecordModel \in Candidates
  /\ StrLess(last.models[2], last.pref)

====
